---------------------------- MODULE Spec2Model ----------------------------
(***************************************************************************)
(* A model of pathlist (src/src/pathlist/path.py): the CountedList         *)
(* container (count, repr, indexing, sampling), the directory walker _ls   *)
(* behind Path.ls / Path.rls, and get_directory_tree.                      *)
(*                                                                         *)
(* Text is a sequence of one-character strings, so that lengths, joins,    *)
(* substring tests and name ordering are computed as Python computes them. *)
(***************************************************************************)
EXTENDS Integers, Sequences, FiniteSets, TLC

VARIABLES
    items,       \* the elements of the CountedList under test (list storage)
    max_lines,   \* its max_lines attribute
    max_width,   \* its max_width attribute
    initial,     \* history: the iterable the constructor received
    added,       \* history: every element appended or extended since, in order
    res,         \* the outcome of the last CountedList call
    fs,          \* the filesystem: existing path -> "file" | "dir"
    out          \* the outcome of the last ls / rls / get_directory_tree call

cvars == <<items, max_lines, max_width, initial, added, res>>
fvars == <<fs, out>>
vars == <<items, max_lines, max_width, initial, added, res, fs, out>>

---------------------------------------------------------------------------
(* Bounds of the model *)

MaxInit == 1      \* longest short iterable handed to the constructor
MaxAdd == 2       \* most elements appended/extended after construction
LongLen == 10     \* CountedList([5] * LongLen): a count of two digits
MaxK == 2         \* largest k passed to sample

Values == {5, 123}                 \* element values (reprs of length 1 and 3)
LinesSet == {1, 2, 15}             \* max_lines arguments
WidthSet == {8, 13, 120}           \* max_width arguments

\* Python's None, and an int where None is also allowed
None == <<>>
Some(v) == <<v>>

---------------------------------------------------------------------------
(* Text helpers *)

Digits == <<"0", "1", "2", "3", "4", "5", "6", "7", "8", "9">>

\* str(n) / repr(n) of a non-negative int: its decimal digits
RECURSIVE str_int(_)
str_int(k) == IF k < 10 THEN <<Digits[k + 1]>>
              ELSE str_int(k \div 10) \o <<Digits[(k % 10) + 1]>>

\* ' ' * k
Spaces(k) == [i \in 1..k |-> " "]

\* s.split('\n'): the list of lines of s
RECURSIVE SplitLines(_)
SplitLines(s) ==
    IF \A i \in 1..Len(s) : s[i] # "\n" THEN <<s>>
    ELSE LET i == CHOOSE j \in 1..Len(s) :
                      s[j] = "\n" /\ \A h \in 1..(j - 1) : s[h] # "\n"
         IN <<SubSeq(s, 1, i - 1)>> \o SplitLines(SubSeq(s, i + 1, Len(s)))

\* sep.join(parts)
RECURSIVE Join(_, _)
Join(sep, parts) ==
    IF parts = <<>> THEN <<>>
    ELSE IF Len(parts) = 1 THEN parts[1]
    ELSE parts[1] \o sep \o Join(sep, Tail(parts))

\* [v] * k
Repeat(v, k) == [i \in 1..k |-> v]

\* all sequences over S of length at most k
SeqsUpTo(S, k) == UNION {[1..m -> S] : m \in 0..k}

---------------------------------------------------------------------------
(* CountedList *)

DefaultMaxLines == 15
DefaultMaxWidth == 120

\* CountedList.__init__: a container value
CountedList(iterable, ml, mw) ==
    [kind |-> "CountedList", items |-> iterable, max_lines |-> ml, max_width |-> mw]

\* a raised exception
Error(exc) == [kind |-> "error", exc |-> exc]

\* a bare (non-container) return value
Bare(v) == [kind |-> "bare", val |-> v]

\* CountedList.n
n(self) == Len(self.items)

\* repr of one element
repr_item(x) == str_int(x)

\* slice.indices(len): a bound of the slice, clamped as list slicing clamps it
SliceBound(v, len, step, dflt) ==
    IF v = None THEN dflt
    ELSE LET w == IF v[1] < 0 THEN v[1] + len ELSE v[1]
         IN IF w < 0 THEN (IF step < 0 THEN -1 ELSE 0)
            ELSE IF w >= len THEN (IF step < 0 THEN len - 1 ELSE len)
            ELSE w

RECURSIVE SliceWalk(_, _, _)
SliceWalk(i, stop, step) ==
    IF (step > 0 /\ i >= stop) \/ (step < 0 /\ i <= stop) THEN <<>>
    ELSE <<i>> \o SliceWalk(i + step, stop, step)

\* the 0-based positions list.__getitem__(slice(start, stop, step)) selects
SlicePositions(len, start, stop, stp) ==
    LET step == IF stp = None THEN 1 ELSE stp[1]
        lo == SliceBound(start, len, step, IF step < 0 THEN len - 1 ELSE 0)
        hi == SliceBound(stop, len, step, IF step < 0 THEN -1 ELSE len)
    IN SliceWalk(lo, hi, step)

\* list.__getitem__(slice): the selected elements, as a plain list
list_getslice(list, start, stop, stp) ==
    LET pos == SlicePositions(Len(list), start, stop, stp)
    IN [j \in 1..Len(pos) |-> list[pos[j] + 1]]

\* list.__getitem__(int): negative indices count from the end
InRange(list, i) == -Len(list) <= i /\ i < Len(list)
list_getint(list, i) == list[(IF i < 0 THEN i + Len(list) ELSE i) + 1]

\* index arguments of __getitem__
IntIndex(i) == [t |-> "int", i |-> i]
SliceIndex(start, stop, stp) == [t |-> "slice", start |-> start, stop |-> stop, step |-> stp]
ListIndex(l) == [t |-> "list", l |-> l]

\* CountedList.__getitem__
getitem(self, index) ==
    IF index.t = "list"
    THEN IF \E j \in 1..Len(index.l) : ~InRange(self.items, index.l[j])
         THEN Error("IndexError")
         ELSE CountedList([j \in 1..Len(index.l) |-> list_getint(self.items, index.l[j])],
                          DefaultMaxLines, DefaultMaxWidth)
    ELSE IF index.t = "slice"
    THEN IF index.step = Some(0) THEN Error("ValueError")
         ELSE CountedList(list_getslice(self.items, index.start, index.stop, index.step),
                          DefaultMaxLines, DefaultMaxWidth)
    ELSE IF ~InRange(self.items, index.i) THEN Error("IndexError")
         ELSE Bare(list_getint(self.items, index.i))

\* (mutant) the loop breaks before it adds the item that would not fit, so
\* the text it leaves behind still fits
RECURSIVE one_line_break_early(_, _, _, _)
one_line_break_early(one_line, rest, indent_length, mw) ==
    IF rest = <<>> THEN one_line
    ELSE LET nxt == one_line \o <<",", " ">> \o repr_item(Head(rest))
         IN IF Len(nxt) + indent_length + 1 > mw THEN one_line
            ELSE one_line_break_early(nxt, Tail(rest), indent_length, mw)

\* the one-line attempt: the loop that joins reprs and breaks once too wide
RECURSIVE one_line_loop(_, _, _, _)
one_line_loop(one_line, rest, indent_length, mw) ==
    IF rest = <<>> THEN one_line
    ELSE LET nxt == one_line \o <<",", " ">> \o repr_item(Head(rest))
         IN IF Len(nxt) + indent_length + 1 > mw THEN nxt
            ELSE one_line_loop(nxt, Tail(rest), indent_length, mw)

\* s[k:] for a text s and k >= 0
DropPrefix(s, k) == SubSeq(s, k + 1, Len(s))

Ellipsis == <<".", ".", ".">>

\* CountedList.__repr__
repr(self) ==
    LET count == n(self)
        indent_length == 5 + Len(str_int(count))
        indent == Spaces(indent_length)
        prefix == <<"(", "#">> \o str_int(count) \o <<")", " ", "[">>
        first == getitem(self, IntIndex(0)).val
        tail == getitem(self, SliceIndex(Some(1), None, None)).items
        one_line == one_line_loop(repr_item(first), tail, indent_length, self.max_width)
        line(x) == indent \o repr_item(x)
        all == Join(<<",", "\n">>, [i \in 1..count |-> line(self.items[i])])
        head == getitem(self, SliceIndex(None, Some(self.max_lines - 1), None)).items
        last == getitem(self, IntIndex(-1)).val
        cut == Join(<<",", "\n">>, [i \in 1..Len(head) |-> line(head[i])])
               \o <<",", "\n">> \o indent \o Ellipsis \o <<"\n">> \o indent \o repr_item(last)
        body == IF count <= self.max_lines THEN all ELSE cut
    IN IF count = 0 THEN <<"(", "#", "0", ")", " ", "[", "]">>
       ELSE IF Len(one_line) + indent_length + 1 <= self.max_width
            THEN prefix \o one_line \o <<"]">>
            ELSE prefix \o DropPrefix(body, Len(indent)) \o <<"]">>

\* (mutant) draws with replacement: the pool is never shrunk
RECURSIVE sample_with_replacement(_, _, _)
sample_with_replacement(pool, live, k) ==
    IF k = 0 THEN {<<>>}
    ELSE UNION { { <<pool[j]>> \o rest : rest \in sample_with_replacement(pool, live, k - 1) }
                 : j \in 1..live }

\* random.sample's pool loop: each of k draws takes pool[j] for a random j
\* among the live slots and moves the last live element into slot j.
\* The set of every result the random draws can produce.
RECURSIVE sample_pool(_, _, _)
sample_pool(pool, live, k) ==
    IF k = 0 THEN {<<>>}
    ELSE UNION { { <<pool[j]>> \o rest :
                     rest \in sample_pool([pool EXCEPT ![j] = pool[live]], live - 1, k - 1) }
                 : j \in 1..live }

\* CountedList.sample: every outcome
sample(self, k) ==
    IF ~(0 <= k /\ k <= Len(self.items)) THEN {Error("ValueError")}
    ELSE {CountedList(s, DefaultMaxLines, DefaultMaxWidth) :
              s \in sample_pool(self.items, Len(self.items), k)}

\* list.append / list.extend (inherited from list)
list_append(list, x) == Append(list, x)
\* (mutant) extend that inserts at the front
extend_at_front(list, xs) == xs \o list
list_extend(list, xs) == list \o xs

---------------------------------------------------------------------------
(* The CountedList under test: construction and calls *)

Self == CountedList(items, max_lines, max_width)

NoRes == [op |-> "none"]

Iterables == SeqsUpTo(Values, MaxInit) \cup {Repeat(5, LongLen)}

InitC ==
    /\ initial \in Iterables
    /\ items = initial
    /\ max_lines \in LinesSet
    /\ max_width \in WidthSet
    /\ added = <<>>
    /\ res = NoRes

\* cl.append(x)
AppendOp(x) ==
    /\ Len(added) < MaxAdd
    /\ items' = list_append(items, x)
    /\ added' = Append(added, x)
    /\ res' = NoRes
    /\ UNCHANGED <<max_lines, max_width, initial>>
    /\ UNCHANGED fvars

\* cl.extend(xs)
ExtendOp(xs) ==
    /\ Len(added) + Len(xs) <= MaxAdd
    /\ items' = list_extend(items, xs)
    /\ added' = added \o xs
    /\ res' = NoRes
    /\ UNCHANGED <<max_lines, max_width, initial>>
    /\ UNCHANGED fvars

\* cl.n
CountOp ==
    /\ res' = [op |-> "n", ret |-> Bare(n(Self))]
    /\ UNCHANGED <<items, max_lines, max_width, initial, added>>
    /\ UNCHANGED fvars

\* repr(cl)
ReprOp ==
    /\ res' = [op |-> "repr", ret |-> Bare(repr(Self))]
    /\ UNCHANGED <<items, max_lines, max_width, initial, added>>
    /\ UNCHANGED fvars

\* cl[index]
GetItemOp(index) ==
    /\ res' = [op |-> "getitem", arg |-> index, ret |-> getitem(Self, index)]
    /\ UNCHANGED <<items, max_lines, max_width, initial, added>>
    /\ UNCHANGED fvars

\* cl.sample(k)
SampleOp(k) ==
    /\ \E r \in sample(Self, k) : res' = [op |-> "sample", arg |-> k, ret |-> r]
    /\ UNCHANGED <<items, max_lines, max_width, initial, added>>
    /\ UNCHANGED fvars

SliceEnds == {None, Some(-1), Some(1)}
SliceSteps == {None, Some(-1), Some(0)}
IndexArgs ==
    {IntIndex(i) : i \in -2..1}
    \cup {SliceIndex(a, b, s) : a \in SliceEnds, b \in SliceEnds, s \in SliceSteps}
    \cup {ListIndex(l) : l \in SeqsUpTo({-1, 1}, 2)}

NextC ==
    \/ \E x \in Values : AppendOp(x)
    \/ \E xs \in SeqsUpTo(Values, 2) : ExtendOp(xs)
    \/ CountOp
    \/ ReprOp
    \/ \E index \in IndexArgs : GetItemOp(index)
    \/ \E k \in 0..MaxK : SampleOp(k)

---------------------------------------------------------------------------
(* Filesystem: a path is the sequence of names below the base directory;   *)
(* fs maps every existing path to "file" or "dir".                         *)

MaxNodes == 3     \* most entries below the base directory

BaseName == <<"t">>
NameA == <<"a">>
NameB == <<"b">>
NameH == <<".", "h">>
Names == {NameA, NameB, NameH}

\* code points of the characters names and patterns are made of
Ord(c) == CASE c = "." -> 46 [] c = "/" -> 47 [] c = "a" -> 97
            [] c = "b" -> 98 [] c = "h" -> 104 [] c = "t" -> 116

\* str < str, as Python compares strings
RECURSIVE StrLess(_, _)
StrLess(x, y) ==
    IF y = <<>> THEN FALSE
    ELSE IF x = <<>> THEN TRUE
    ELSE IF Head(x) # Head(y) THEN Ord(Head(x)) < Ord(Head(y))
    ELSE StrLess(Tail(x), Tail(y))

\* pattern in text
Contains(pattern, text) ==
    \E k \in 0..(Len(text) - Len(pattern)) :
        SubSeq(text, k + 1, k + Len(pattern)) = pattern

\* name.startswith('.')
StartsWithDot(name) == Len(name) >= 1 /\ name[1] = "."

\* the path string: os.path.join of the base and the names
RECURSIVE PathStr(_)
PathStr(path) ==
    IF path = <<>> THEN BaseName
    ELSE PathStr(SubSeq(path, 1, Len(path) - 1)) \o <<"/">> \o path[Len(path)]

\* Path.name
PathName(path) == IF path = <<>> THEN BaseName ELSE path[Len(path)]

\* os.path.exists, Path.is_dir, Path.is_file
Exists(f, path) == path \in DOMAIN f
IsDir(f, path) == Exists(f, path) /\ f[path] = "dir"
IsFile(f, path) == Exists(f, path) /\ f[path] = "file"

\* the entries of a directory
Children(f, path) ==
    {q \in DOMAIN f : Len(q) = Len(path) + 1 /\ SubSeq(q, 1, Len(path)) = path}

\* every order in which a set can be enumerated
RECURSIVE Orders(_)
Orders(S) ==
    IF S = {} THEN {<<>>}
    ELSE UNION { { <<x>> \o o : o \in Orders(S \ {x}) } : x \in S }

\* a result element: Path(_path), or _path itself when purestr
Entry(path, purestr) == [t |-> IF purestr THEN "str" ELSE "Path", s |-> PathStr(path)]

RECURSIVE _ls(_, _, _, _, _)
RECURSIVE scan(_, _, _, _, _)

\* (mutant) the loop of _ls, descending only into the directories that match
scan_skip_unmatched(f, entries, pattern, purestr, depth) ==
    IF entries = <<>> THEN {<<>>}
    ELSE LET entry == Head(entries)
             matched == Contains(pattern, PathStr(entry))
             below == IF matched /\ IsDir(f, entry) /\ depth > 1
                      THEN {c.items : c \in _ls(f, entry, pattern, purestr, depth - 1)}
                      ELSE {<<>>}
             mine == IF StartsWithDot(PathName(entry)) THEN {<<>>}
                     ELSE {(IF matched THEN <<Entry(entry, purestr)>> ELSE <<>>) \o b : b \in below}
         IN {m \o r : m \in mine, r \in scan(f, Tail(entries), pattern, purestr, depth)}

\* (mutant) _ls without the os.path.exists test: os.scandir raises
ls_missing_raises(f, path, pattern, purestr, depth) ==
    IF ~Exists(f, path) THEN {Error("FileNotFoundError")}
    ELSE IF ~IsDir(f, path) THEN {Error("NotADirectoryError")}
    ELSE { CountedList(r, DefaultMaxLines, DefaultMaxWidth) :
             r \in UNION { scan(f, o, pattern, purestr, depth) :
                             o \in Orders(Children(f, path)) } }

\* _ls: every result the enumeration orders of os.scandir can produce
_ls(f, path, pattern, purestr, depth) ==
    IF ~Exists(f, path) THEN {CountedList(<<>>, DefaultMaxLines, DefaultMaxWidth)}
    ELSE IF ~IsDir(f, path) THEN {Error("NotADirectoryError")}
    ELSE { CountedList(r, DefaultMaxLines, DefaultMaxWidth) :
             r \in UNION { scan(f, o, pattern, purestr, depth) :
                             o \in Orders(Children(f, path)) } }

\* the loop of _ls over the entries, in the order os.scandir yields them
scan(f, entries, pattern, purestr, depth) ==
    IF entries = <<>> THEN {<<>>}
    ELSE LET entry == Head(entries)
             below == IF IsDir(f, entry) /\ depth > 1
                      THEN {c.items : c \in _ls(f, entry, pattern, purestr, depth - 1)}
                      ELSE {<<>>}
             mine == IF StartsWithDot(PathName(entry)) THEN {<<>>}
                     ELSE {(IF Contains(pattern, PathStr(entry))
                            THEN <<Entry(entry, purestr)>> ELSE <<>>) \o b : b \in below}
         IN {m \o r : m \in mine, r \in scan(f, Tail(entries), pattern, purestr, depth)}

\* the depth Path.rls hands to _ls when asked for unbounded recursion
Unbounded == 1073741824

\* Path.ls
ls(f, self, pattern, purestr) == _ls(f, self, pattern, purestr, 1)

\* the depth Path.rls passes on
rls_depth(depth) == IF depth >= 0 THEN depth ELSE Unbounded

\* Path.rls
rls(f, self, pattern, purestr, depth) == _ls(f, self, pattern, purestr, rls_depth(depth))

\* (mutant) children in descending order of name
RECURSIVE SortedByNameDescending(_)
SortedByNameDescending(S) ==
    IF S = {} THEN <<>>
    ELSE LET m == CHOOSE x \in S : \A y \in S \ {x} : StrLess(PathName(y), PathName(x))
         IN <<m>> \o SortedByNameDescending(S \ {m})

\* sorted(paths, key=lambda x: x.name)
RECURSIVE SortedByName(_)
SortedByName(S) ==
    IF S = {} THEN <<>>
    ELSE LET m == CHOOSE x \in S : \A y \in S \ {x} : StrLess(PathName(x), PathName(y))
         IN <<m>> \o SortedByName(S \ {m})

\* the line get_directory_tree writes for root
TreeLine(f, root, indent) ==
    Spaces(indent) \o <<"|", "-", "-">>
        \o (IF IsFile(f, root) THEN <<"[", "F", "]">> ELSE <<"[", "D", "]">>)
        \o <<" ">> \o PathName(root) \o <<"\n">>

RECURSIVE ConcatAll(_)
ConcatAll(parts) == IF parts = <<>> THEN <<>> ELSE Head(parts) \o ConcatAll(Tail(parts))

TreeStep == 6

\* (mutant) get_directory_tree that still descends when depth is 0, for
\* want of the depth == -1 exit and the depth > 0 test
RECURSIVE tree_no_depth_stop(_, _, _, _)
tree_no_depth_stop(f, root, indent, depth) ==
    LET kids == SortedByName(Children(f, root))
    IN TreeLine(f, root, indent)
       \o (IF IsDir(f, root)
           THEN ConcatAll([i \in 1..Len(kids) |->
                    tree_no_depth_stop(f, kids[i], indent + TreeStep, depth - 1)])
           ELSE <<>>)

\* get_directory_tree: the returned text (with verbose, the printed text is
\* the same lines in the same order)
RECURSIVE get_directory_tree(_, _, _, _)
get_directory_tree(f, root, indent, depth) ==
    IF depth = -1 THEN <<>>
    ELSE LET kids == SortedByName(Children(f, root))
         IN TreeLine(f, root, indent)
            \o (IF IsDir(f, root) /\ depth > 0
                THEN ConcatAll([i \in 1..Len(kids) |->
                         get_directory_tree(f, kids[i], indent + TreeStep, depth - 1)])
                ELSE <<>>)

---------------------------------------------------------------------------
(* The filesystem under test and the calls on it *)

NoOut == [op |-> "none"]

InitF ==
    /\ fs = (<<>> :> "dir")
    /\ out = NoOut

CanCreate(path) ==
    /\ Len(path) >= 1
    /\ ~Exists(fs, path)
    /\ IsDir(fs, SubSeq(path, 1, Len(path) - 1))
    /\ Cardinality(DOMAIN fs) - 1 < MaxNodes

\* (parent / name).touch()
Touch(parent, name) ==
    /\ CanCreate(parent \o <<name>>)
    /\ fs' = fs @@ ((parent \o <<name>>) :> "file")
    /\ out' = NoOut
    /\ UNCHANGED cvars

\* (parent / name).mkdir()
Mkdir(parent, name) ==
    /\ CanCreate(parent \o <<name>>)
    /\ fs' = fs @@ ((parent \o <<name>>) :> "dir")
    /\ out' = NoOut
    /\ UNCHANGED cvars

IsUnder(q, path) == Len(q) >= Len(path) /\ SubSeq(q, 1, Len(path)) = path

\* Path.rm (what it returns or raises is not kept); rmdir of a non-empty
\* directory and unlink of a missing path raise and remove nothing.  The
\* base directory itself is never removed.
Rm(path, recursive) ==
    /\ Len(path) >= 1
    /\ IF IsDir(fs, path)
       THEN IF recursive \/ Children(fs, path) = {}
            THEN fs' = [q \in {x \in DOMAIN fs : ~IsUnder(x, path)} |-> fs[q]]
            ELSE fs' = fs
       ELSE fs' = [q \in DOMAIN fs \ {path} |-> fs[q]]
    /\ out' = NoOut
    /\ UNCHANGED cvars

\* root.ls(pattern, purestr)
Ls(root, pattern, purestr) ==
    /\ \E r \in ls(fs, root, pattern, purestr) :
           out' = [op |-> "ls", root |-> root, pattern |-> pattern, purestr |-> purestr,
                   depth |-> 1, ret |-> r]
    /\ fs' = fs
    /\ UNCHANGED cvars

\* root.rls(pattern, purestr, depth)
Rls(root, pattern, purestr, depth) ==
    /\ \E r \in rls(fs, root, pattern, purestr, depth) :
           out' = [op |-> "rls", root |-> root, pattern |-> pattern, purestr |-> purestr,
                   depth |-> rls_depth(depth), ret |-> r]
    /\ fs' = fs
    /\ UNCHANGED cvars

\* get_directory_tree(root, indent, verbose, depth)
Tree(root, indent, verbose, depth) ==
    /\ LET tree == get_directory_tree(fs, root, indent, depth)
       IN out' = [op |-> "tree", root |-> root, indent |-> indent, depth |-> depth,
                  ret |-> Bare(tree), printed |-> IF verbose THEN tree ELSE <<>>]
    /\ fs' = fs
    /\ UNCHANGED cvars

Roots == {<<>>, <<NameA>>}
Patterns == {<<>>, <<"/", "b">>}
RlsDepths == {-1, 2}
Indents == {0, 1}
TreeDepths == {-1, 0, 1, Unbounded}

\* listings, while the filesystem changes under them
NextL ==
    \/ \E parent \in DOMAIN fs, name \in Names : Touch(parent, name)
    \/ \E parent \in DOMAIN fs, name \in Names : Mkdir(parent, name)
    \/ \E path \in DOMAIN fs, recursive \in BOOLEAN : Rm(path, recursive)
    \/ \E root \in Roots, pattern \in Patterns, purestr \in BOOLEAN : Ls(root, pattern, purestr)
    \/ \E root \in Roots, pattern \in Patterns, purestr \in BOOLEAN, depth \in RlsDepths :
           Rls(root, pattern, purestr, depth)

\* tree renderings, while the filesystem changes under them
NextT ==
    \/ \E parent \in DOMAIN fs, name \in Names : Touch(parent, name)
    \/ \E parent \in DOMAIN fs, name \in Names : Mkdir(parent, name)
    \/ \E path \in DOMAIN fs, recursive \in BOOLEAN : Rm(path, recursive)
    \/ \E root \in Roots, indent \in Indents, verbose \in BOOLEAN, depth \in TreeDepths :
           Tree(root, indent, verbose, depth)

---------------------------------------------------------------------------
(* Specifications *)

\* a CountedList under test, beside an empty base directory
InitCounted ==
    /\ InitC
    /\ InitF

\* an empty base directory, beside an empty default CountedList
InitFiles ==
    /\ InitF
    /\ initial = <<>> /\ items = <<>> /\ added = <<>>
    /\ max_lines = DefaultMaxLines /\ max_width = DefaultMaxWidth
    /\ res = NoRes

\* the CountedList calls
SpecC == InitCounted /\ [][NextC]_vars

\* listings of a changing filesystem
SpecL == InitFiles /\ [][NextL]_vars

\* tree renderings of a changing filesystem
SpecT == InitFiles /\ [][NextT]_vars

---------------------------------------------------------------------------
(* Claims about CountedList *)

\* the reprs of the elements, in order
Reprs(list) == [i \in 1..Len(list) |-> repr_item(list[i])]

\* '(#<count>) ['
Prefix(list) == <<"(", "#">> \o str_int(Len(list)) \o <<")", " ", "[">>

\* the complete single-line form '(#<count>) [e1, e2, ..., en]'
SingleLineForm(list) == Prefix(list) \o Join(<<",", " ">>, Reprs(list)) \o <<"]">>

\* the multi-line form: the rendered entries one per line, a comma after
\* every element but the last, the first line after the prefix and the
\* others after an indent as long as the prefix
Shown(list, ml) ==
    IF Len(list) <= ml THEN Reprs(list)
    ELSE Reprs(SubSeq(list, 1, ml - 1)) \o <<Ellipsis>> \o <<repr_item(list[Len(list)])>>

MultiLineForm(list, ml) ==
    LET shown == Shown(list, ml)
        lead(i) == IF i = 1 THEN Prefix(list) ELSE Spaces(Len(Prefix(list)))
        trail(i) == IF i = Len(shown) THEN <<"]">>
                    ELSE IF shown[i] = Ellipsis /\ Len(list) > ml /\ i = Len(shown) - 1
                         THEN <<>> ELSE <<",">>
    IN Join(<<"\n">>, [i \in 1..Len(shown) |-> lead(i) \o shown[i] \o trail(i)])

ReprDone == res.op = "repr"
ReprText == res.ret.val

\* C1: indexing by a slice or by a list of integers returns a new CountedList
\* whose max_lines and max_width equal those of the indexed container;
\* indexing by a single integer returns the bare element.
C1_IndexKeepsDisplayParameters ==
    (res.op = "getitem" /\ res.ret.kind # "error") =>
        IF res.arg.t = "int"
        THEN res.ret = Bare(list_getint(items, res.arg.i))
        ELSE /\ res.ret.kind = "CountedList"
             /\ res.ret.max_lines = max_lines
             /\ res.ret.max_width = max_width

\* C2: after any sequence of append and extend, n equals the number of
\* elements (initial plus added) and the elements are in insertion order.
C2_CountEqualsLength ==
    /\ n(Self) = Len(initial) + Len(added)
    /\ items = initial \o added
    /\ res.op = "n" => res.ret = Bare(Len(initial) + Len(added))

C2_Witness ==
    res.op = "n" /\ Len(initial) >= 1 /\ Len(added) >= 2 /\ added[1] # added[2]

\* C3: sample(k) with 0 <= k <= n returns a new CountedList of exactly k
\* elements taken from k pairwise distinct positions of the original and
\* leaves the original unchanged; sample(k) with k > n fails.
C3_SampleDistinctPositions ==
    res.op = "sample" =>
        IF res.arg <= Len(items)
        THEN /\ res.ret.kind = "CountedList"
             /\ Len(res.ret.items) = res.arg
             /\ \E f \in [1..res.arg -> 1..Len(items)] :
                    /\ \A i, j \in 1..res.arg : i # j => f[i] # f[j]
                    /\ \A i \in 1..res.arg : res.ret.items[i] = items[f[i]]
             /\ items = initial \o added
        ELSE res.ret.kind = "error"

C3_Witness ==
    /\ res.op = "sample" /\ res.arg = 2 /\ res.ret.kind = "CountedList"
    /\ Len(items) >= 3 /\ \E i, j \in 1..Len(items) : items[i] # items[j]

C3_WitnessTooMany ==
    res.op = "sample" /\ res.arg > Len(items) /\ res.ret.kind = "error"

C5_MultiLineForm ==
    (ReprDone /\ items # <<>> /\ Len(SingleLineForm(items)) > max_width /\ max_lines >= 1)
        => ReprText = MultiLineForm(items, max_lines)

\* the multi-line form is as C5 describes it whenever max_lines >= 2: the
\* divergence is confined to max_lines = 1
C5_MultiLineFormFromTwo ==
    (ReprDone /\ items # <<>> /\ Len(SingleLineForm(items)) > max_width /\ max_lines >= 2)
        => ReprText = MultiLineForm(items, max_lines)

\* C6: every line of repr's text is strictly shorter than max_width.
C6_LinesUnderMaxWidth ==
    ReprDone =>
        \A i \in 1..Len(SplitLines(ReprText)) : Len(SplitLines(ReprText)[i]) < max_width

---------------------------------------------------------------------------
(* Claims about the walker *)

ListDone == out.op \in {"ls", "rls"}

\* how often x occurs in the sequence s
Count(s, x) == Cardinality({i \in 1..Len(s) : s[i] = x})

\* the entries the walker is to return: 1 to depth levels below root, no
\* hidden name on the way from root to the entry (the entry's own name
\* included), the pattern within the entry's path string
Wanted(f, root, pattern, depth) ==
    {e \in DOMAIN f :
        /\ IsUnder(e, root)
        /\ Len(e) - Len(root) >= 1
        /\ Len(e) - Len(root) <= depth
        /\ \A k \in (Len(root) + 1)..Len(e) : ~StartsWithDot(e[k])
        /\ Contains(pattern, PathStr(e))}

\* C7: for an existing root directory and depth >= 1 the result holds,
\* exactly once each and flattened, precisely the entries 1 to depth levels
\* below the root with no hidden name from the root down and a path string
\* that contains the pattern; unmatched directories are still descended,
\* hidden ones are neither returned nor descended.
C7_WalkerReturnsExactlyTheMatches ==
    (ListDone /\ IsDir(fs, out.root) /\ out.depth >= 1) =>
        /\ out.ret.kind = "CountedList"
        /\ \A i \in 1..Len(out.ret.items) :
               \E e \in DOMAIN fs : out.ret.items[i] = Entry(e, out.purestr)
        /\ \A e \in DOMAIN fs :
               Count(out.ret.items, Entry(e, out.purestr)) =
                   IF e \in Wanted(fs, out.root, out.pattern, out.depth) THEN 1 ELSE 0

C7_Witness ==
    /\ ListDone /\ out.root = <<>> /\ out.pattern = <<"/", "b">> /\ out.depth >= 2
    /\ IsDir(fs, <<NameA>>) /\ IsDir(fs, <<NameH>>) /\ Exists(fs, <<NameA, NameB>>)
    /\ out.ret = CountedList(<<Entry(<<NameA, NameB>>, out.purestr)>>,
                             DefaultMaxLines, DefaultMaxWidth)

\* C8: ls and rls on a root that does not exist return an empty CountedList,
\* raise nothing and leave the filesystem unchanged.
C8_MissingRootListsEmpty ==
    [][(out'.op \in {"ls", "rls"} /\ ~Exists(fs, out'.root)) =>
           /\ out'.ret = CountedList(<<>>, DefaultMaxLines, DefaultMaxWidth)
           /\ fs' = fs]_vars

C8_Witness ==
    /\ ListDone /\ ~Exists(fs, out.root) /\ Cardinality(DOMAIN fs) > 1
    /\ out.pattern # <<>> /\ out.purestr /\ out.op = "rls"
    /\ out.ret = CountedList(<<>>, DefaultMaxLines, DefaultMaxWidth)

---------------------------------------------------------------------------
(* Claims about the tree renderer *)

TreeDone == out.op = "tree"
TreeText == out.ret.val

\* path order of a depth-first walk that visits children by ascending name
PathBefore(x, y) ==
    /\ x # y
    /\ \/ (Len(x) < Len(y) /\ SubSeq(y, 1, Len(x)) = x)
       \/ \E k \in 1..Len(x) :
              /\ k <= Len(y)
              /\ SubSeq(x, 1, k - 1) = SubSeq(y, 1, k - 1)
              /\ x[k] # y[k]
              /\ StrLess(x[k], y[k])

RECURSIVE InPathOrder(_)
InPathOrder(S) ==
    IF S = {} THEN <<>>
    ELSE LET m == CHOOSE x \in S : \A y \in S \ {x} : PathBefore(x, y)
         IN <<m>> \o InPathOrder(S \ {m})

\* the nodes at most depth levels below root, root included
Within(f, root, depth) ==
    {e \in DOMAIN f : IsUnder(e, root) /\ Len(e) - Len(root) <= depth}

\* the line of a node at a level below the root of the rendering
NodeLine(f, e, level, indent) ==
    Spaces(indent + 6 * level) \o <<"|", "-", "-", "[">>
        \o (IF f[e] = "file" THEN <<"F">> ELSE <<"D">>) \o <<"]", " ">>
        \o PathName(e) \o <<"\n">>

ExpectedTree(f, root, indent, depth) ==
    LET nodes == InPathOrder(Within(f, root, depth))
    IN ConcatAll([i \in 1..Len(nodes) |->
                     NodeLine(f, nodes[i], Len(nodes[i]) - Len(root), indent)])

\* C9: with depth = -1 the renderer returns the empty string; with
\* depth = 0 it returns exactly the root's own line, even for a non-empty
\* directory.
C9_TreeDepthMinusOneAndZero ==
    TreeDone =>
        /\ out.depth = -1 => TreeText = <<>>
        /\ out.depth = 0 =>
               /\ Len(SplitLines(TreeText)) = 2
               /\ SplitLines(TreeText)[2] = <<>>
               /\ SplitLines(TreeText)[1] =
                      Spaces(out.indent) \o <<"|", "-", "-", "[">>
                          \o (IF IsFile(fs, out.root) THEN <<"F">> ELSE <<"D">>)
                          \o <<"]", " ">> \o PathName(out.root)

C9_Witness ==
    /\ TreeDone /\ out.depth = 0 /\ out.root = <<NameA>>
    /\ IsDir(fs, out.root) /\ Children(fs, out.root) # {}

\* C10: for depth >= 0 the output has exactly one line per node at most
\* depth levels below the root (root and hidden entries included), in
\* depth-first pre-order with children in ascending order of name; a node at
\* level L is indented by indent + 6*L and marked [F] for a file, [D]
\* otherwise.
C10_TreeLinesInPreOrder ==
    (TreeDone /\ out.depth >= 0 /\ Exists(fs, out.root)) =>
        TreeText = ExpectedTree(fs, out.root, out.indent, out.depth)

C10_Witness ==
    /\ TreeDone /\ out.depth >= 2 /\ out.root = <<>> /\ out.indent = 1
    /\ IsDir(fs, <<NameA>>) /\ IsFile(fs, <<NameA, NameH>>) /\ Exists(fs, <<NameH>>)

===========================================================================
